---------------------------- MODULE Spec2Model ----------------------------
(***************************************************************************)
(* Model of the REST plugin of tensei (class Rest): the query parser, the  *)
(* page-meta calculator and the route handlers that extendRoutes           *)
(* generates for a resource, together with the registration of the routes  *)
(* on the Express application.                                             *)
(*                                                                         *)
(* JavaScript values are tagged records [t |-> tag, v |-> payload].        *)
(* JavaScript strings are sequences of one-character strings, so that      *)
(* parseInt, the numeric regular expression of the where decoder and       *)
(* String.replace are computed character by character.                     *)
(***************************************************************************)
EXTENDS Integers, Sequences, FiniteSets, TLC

(***************************************************************************)
(* Bounds of the model.                                                    *)
(***************************************************************************)
MaxId == 3
MaxPage == 3
MaxPerPage == 3
MaxObjects == 2
MaxRows == 25
MaxResources == 3
MaxSort == 2

(***************************************************************************)
(* JavaScript values.                                                      *)
(***************************************************************************)
Undef == [t |-> "undefined", v |-> 0]
Null == [t |-> "null", v |-> 0]
NaN == [t |-> "NaN", v |-> 0]
Infinity(sign) == [t |-> "Infinity", v |-> sign]
Num(n) == [t |-> "number", v |-> n]
Dec(i, f) == [t |-> "decimal", v |-> <<i, f>>]
Bool(b) == [t |-> "boolean", v |-> b]
Str(s) == [t |-> "string", v |-> s]
Fn(s) == [t |-> "function", v |-> s]
PromiseOf(x) == [t |-> "promise", v |-> x]
Obj(x) == [t |-> "object", v |-> x]
Arr(xs) == [t |-> "array", v |-> xs]

\* ToBoolean: what `x && ...`, `x || ...`, `!x` and `x ? a : b` test.
Truthy(x) ==
    CASE x.t = "undefined" -> FALSE
      [] x.t = "null" -> FALSE
      [] x.t = "NaN" -> FALSE
      [] x.t = "number" -> x.v # 0
      [] x.t = "boolean" -> x.v
      [] x.t = "string" -> x.v # <<>>
      [] OTHER -> TRUE

Digit == {"0", "1", "2", "3", "4", "5", "6", "7", "8", "9"}

DigitVal(c) ==
    CASE c = "0" -> 0 [] c = "1" -> 1 [] c = "2" -> 2 [] c = "3" -> 3
      [] c = "4" -> 4 [] c = "5" -> 5 [] c = "6" -> 6 [] c = "7" -> 7
      [] c = "8" -> 8 [] c = "9" -> 9

DigitChar(d) == <<"0", "1", "2", "3", "4", "5", "6", "7", "8", "9">>[d + 1]

\* The value of a sequence of decimal digits.
RECURSIVE DigitsVal(_)
DigitsVal(s) ==
    IF s = <<>> THEN 0
    ELSE 10 * DigitsVal(SubSeq(s, 1, Len(s) - 1)) + DigitVal(s[Len(s)])

\* The longest prefix of s made of digits.
RECURSIVE DigitPrefix(_)
DigitPrefix(s) ==
    IF s # <<>> /\ Head(s) \in Digit THEN <<Head(s)>> \o DigitPrefix(Tail(s))
    ELSE <<>>

AllDigits(s) == \A i \in 1..Len(s) : s[i] \in Digit

\* String(n) for an integer n.
RECURSIVE NatToStr(_)
NatToStr(n) ==
    IF n < 10 THEN <<DigitChar(n)>>
    ELSE NatToStr(n \div 10) \o <<DigitChar(n % 10)>>

IntToStr(n) == IF n < 0 THEN <<"-">> \o NatToStr(-n) ELSE NatToStr(n)

\* parseInt(x): String(x), an optional sign, then the leading digits; NaN when
\* there are none.  (Leading white space and the 0x prefix are not in the
\* inputs of the model.)
ParseInt(x) ==
    IF x.t # "string" THEN NaN
    ELSE LET s == x.v
             neg == s # <<>> /\ Head(s) = "-"
             rest == IF s # <<>> /\ Head(s) \in {"-", "+"} THEN Tail(s) ELSE s
             ds == DigitPrefix(rest)
         IN  IF ds = <<>> THEN NaN
             ELSE Num(IF neg THEN -DigitsVal(ds) ELSE DigitsVal(ds))

\* ToNumber(x), the coercion `x >= 1` and `x - 1` apply to a string: the empty
\* string is 0, a signed run of digits is its value, anything else is NaN.
\* (Strings with a fraction, an exponent or white space are not in the inputs
\* to which the model applies it.)
ToNumber(x) ==
    CASE x.t = "number" -> x
      [] x.t = "undefined" -> NaN
      [] x.t = "null" -> Num(0)
      [] x.t = "boolean" -> Num(IF x.v THEN 1 ELSE 0)
      [] x.t = "string" ->
            LET s == x.v
                neg == s # <<>> /\ Head(s) = "-"
                rest == IF s # <<>> /\ Head(s) \in {"-", "+"} THEN Tail(s) ELSE s
            IN  IF s = <<>> THEN Num(0)
                ELSE IF rest # <<>> /\ AllDigits(rest)
                     THEN Num(IF neg THEN -DigitsVal(rest) ELSE DigitsVal(rest))
                     ELSE NaN
      [] OTHER -> NaN

\* Math.floor in place of Math.ceil.
CeilDivMutant(a, b) ==
    IF a.t # "number" \/ b.t # "number" THEN NaN
    ELSE IF b.v = 0
         THEN IF a.v = 0 THEN NaN ELSE Infinity(IF a.v > 0 THEN 1 ELSE -1)
         ELSE IF b.v > 0 THEN Num(a.v \div b.v)
              ELSE Num((-a.v) \div (-b.v))

\* Math.ceil(a / b) on JavaScript numbers.
CeilDiv(a, b) ==
    IF a.t # "number" \/ b.t # "number" THEN NaN
    ELSE IF b.v = 0
         THEN IF a.v = 0 THEN NaN ELSE Infinity(IF a.v > 0 THEN 1 ELSE -1)
         ELSE IF b.v > 0 THEN Num(-((-a.v) \div b.v))
              ELSE Num(-(a.v \div (-b.v)))

\* a + b and a * b, a - b on JavaScript numbers (NaN when an operand is NaN).
JsAdd(a, b) ==
    IF a.t = "number" /\ b.t = "number" THEN Num(a.v + b.v) ELSE NaN

JsSub(a, b) ==
    IF a.t = "number" /\ b.t = "number" THEN Num(a.v - b.v) ELSE NaN

JsMul(a, b) ==
    IF a.t = "number" /\ b.t = "number" THEN Num(a.v * b.v) ELSE NaN

\* a >= b: false when an operand is NaN.
JsGe(a, b) == a.t = "number" /\ b.t = "number" /\ a.v >= b.v

(***************************************************************************)
(* The resource the routes are generated for (resource('Post')).           *)
(***************************************************************************)
perPageOptions == <<25, 50, 100>>

modelName == "Post"

snakeCaseName == "post"

slugPlural == "posts"

(***************************************************************************)
(* Rest.getPageMetaFromFindOptions                                         *)
(***************************************************************************)
\* The page computed from the offset without the + 1.
getPageMetaMutant(total, findOptions) ==
    [total |-> Num(total),
     page |->
        IF Truthy(findOptions.offset)
           \/ (findOptions.offset = Num(0) /\ Truthy(findOptions.limit))
        THEN CeilDiv(findOptions.offset, findOptions.limit)
        ELSE Null,
     per_page |-> IF Truthy(findOptions.limit) THEN findOptions.limit ELSE Null,
     page_count |-> CeilDiv(Num(total), findOptions.limit)]

getPageMetaFromFindOptions(total, findOptions) ==
    [total |-> Num(total),
     page |->
        IF Truthy(findOptions.offset)
           \/ (findOptions.offset = Num(0) /\ Truthy(findOptions.limit))
        THEN CeilDiv(JsAdd(findOptions.offset, Num(1)), findOptions.limit)
        ELSE Null,
     per_page |-> IF Truthy(findOptions.limit) THEN findOptions.limit ELSE Null,
     page_count |-> CeilDiv(Num(total), findOptions.limit)]

(***************************************************************************)
(* Rest.parseQueryToFindOptions: the limit and the offset.                 *)
(***************************************************************************)
MinusOne == Str(<<"-", "1">>)

FindLimit(query) ==
    IF Truthy(ParseInt(query.per_page)) THEN ParseInt(query.per_page)
    ELSE Num(perPageOptions[1])

\* The offset computed as page * limit.
FindOffsetMutant(query, limit) ==
    IF JsGe(ToNumber(query.page), Num(1))
    THEN JsMul(ToNumber(query.page), limit)
    ELSE Num(0)

FindOffset(query, limit) ==
    IF JsGe(ToNumber(query.page), Num(1))
    THEN JsMul(JsSub(ToNumber(query.page), Num(1)), limit)
    ELSE Num(0)

\* A test of presence in place of the test of truthiness.
PaginatesMutant(query) == query.page # Undef /\ query.page # MinusOne

Paginates(query) == Truthy(query.page) /\ query.page # MinusOne

\* String.prototype.split(separator) for a one-character separator: the
\* pieces between the separators, empty pieces included.
RECURSIVE Split(_, _)
Split(s, separator) ==
    IF \E i \in 1..Len(s) : s[i] = separator
    THEN LET i == CHOOSE k \in 1..Len(s) :
                     /\ s[k] = separator
                     /\ \A j \in 1..(k - 1) : s[j] # separator
         IN  <<SubSeq(s, 1, i - 1)>>
             \o Split(SubSeq(s, i + 1, Len(s)), separator)
    ELSE <<s>>

\* query.sort.split(',').map(sorter => sorter.split(':'))
Sorters(sort) ==
    LET pieces == Split(sort, ",")
    IN  [i \in 1..Len(pieces) |-> Split(pieces[i], ":")]

\* { ...orderBy, [field]: direction }: an object is the sequence of its
\* <<key, value>> pairs in insertion order; a key the object has keeps its
\* place and takes the new value, a new key goes last.
Spread(orderBy, field, direction) ==
    IF \E i \in 1..Len(orderBy) : orderBy[i][1] = field
    THEN [i \in 1..Len(orderBy) |->
             IF orderBy[i][1] = field THEN <<field, direction>>
             ELSE orderBy[i]]
    ELSE Append(orderBy, <<field, direction>>)

\* sorters.forEach(([field, direction]) => { findOptions.orderBy = ... }):
\* a sorter without a second piece has the direction undefined.
\* A loop that keeps the direction a field already has.
OrderByFromMutant(orderBy, sorters) ==
    LET RECURSIVE Go(_, _)
        Go(acc, rest) ==
            IF rest = <<>> THEN acc
            ELSE LET field == Head(rest)[1]
                     direction == IF Len(Head(rest)) >= 2
                                  THEN Str(Head(rest)[2]) ELSE Undef
                 IN  Go(IF \E i \in 1..Len(acc) : acc[i][1] = field
                        THEN acc ELSE Spread(acc, field, direction),
                        Tail(rest))
    IN  Go(orderBy, sorters)

OrderByFrom(orderBy, sorters) ==
    LET RECURSIVE Go(_, _)
        Go(acc, rest) ==
            IF rest = <<>> THEN acc
            ELSE LET field == Head(rest)[1]
                     direction == IF Len(Head(rest)) >= 2
                                  THEN Str(Head(rest)[2]) ELSE Undef
                 IN  Go(Spread(acc, field, direction), Tail(rest))
    IN  Go(orderBy, sorters)

\* findOptions.orderBy: set only for a truthy query.sort.
FindOrderBy(query) ==
    IF Truthy(query.sort)
    THEN Obj(OrderByFrom(<<>>, Sorters(query.sort.v)))
    ELSE Undef

parseQueryToFindOptions(query) ==
    IF Paginates(query)
    THEN [limit |-> FindLimit(query),
          offset |-> FindOffset(query, FindLimit(query)),
          orderBy |-> FindOrderBy(query)]
    ELSE [limit |-> Undef, offset |-> Undef, orderBy |-> FindOrderBy(query)]

(***************************************************************************)
(* Rest.parseQueryToWhereOptions: the decoder handed to qs.parse.          *)
(***************************************************************************)
\* /^(\d+|\d*\.\d+)$/.test(s)
IsNumericString(s) ==
    \/ s # <<>> /\ AllDigits(s)
    \/ \E k \in 1..Len(s) :
          /\ s[k] = "."
          /\ AllDigits(SubSeq(s, 1, k - 1))
          /\ k < Len(s)
          /\ AllDigits(SubSeq(s, k + 1, Len(s)))

RECURSIVE StripTrailingZeros(_)
StripTrailingZeros(s) ==
    IF s # <<>> /\ s[Len(s)] = "0"
    THEN StripTrailingZeros(SubSeq(s, 1, Len(s) - 1))
    ELSE s

\* parseFloat(s) for a string the regular expression accepts.
ParseFloat(s) ==
    IF AllDigits(s) THEN Num(DigitsVal(s))
    ELSE LET k == CHOOSE i \in 1..Len(s) : s[i] = "."
             int == DigitsVal(SubSeq(s, 1, k - 1))
             frac == StripTrailingZeros(SubSeq(s, k + 1, Len(s)))
         IN  IF frac = <<>> THEN Num(int) ELSE Dec(int, frac)

WhereWord == <<"w", "h", "e", "r", "e">>

\* The positions at which WhereWord occurs in s.
WhereAt(s) ==
    {i \in 1..Len(s) :
        i + Len(WhereWord) - 1 <= Len(s)
        /\ SubSeq(s, i, i + Len(WhereWord) - 1) = WhereWord}

\* value.replace(/where/, ''): the first occurrence is removed.
StripWhere(s) ==
    IF WhereAt(s) = {} THEN s
    ELSE LET i == CHOOSE j \in WhereAt(s) : \A k \in WhereAt(s) : j <= k
         IN  SubSeq(s, 1, i - 1) \o SubSeq(s, i + Len(WhereWord), Len(s))

\* The own properties of the keywords object literal.
Keywords(s) ==
    CASE s = <<"t", "r", "u", "e">> -> Bool(TRUE)
      [] s = <<"f", "a", "l", "s", "e">> -> Bool(FALSE)
      [] s = <<"n", "u", "l", "l">> -> Null
      [] s = <<"u", "n", "d", "e", "f", "i", "n", "e", "d">> -> Undef

OwnKeywords == {<<"t", "r", "u", "e">>, <<"f", "a", "l", "s", "e">>,
                <<"n", "u", "l", "l">>, <<"u", "n", "d", "e", "f", "i", "n", "e", "d">>}

\* `value in keywords` is also true of the properties the object literal
\* inherits from Object.prototype; keywords[value] is then that inherited
\* function.
InheritedKeywords ==
    {<<"c", "o", "n", "s", "t", "r", "u", "c", "t", "o", "r">>,
     <<"t", "o", "S", "t", "r", "i", "n", "g">>,
     <<"v", "a", "l", "u", "e", "O", "f">>,
     <<"h", "a", "s", "O", "w", "n", "P", "r", "o", "p", "e", "r", "t", "y">>}

decoder(value) ==
    IF IsNumericString(value) THEN ParseFloat(value)
    ELSE LET stripped == StripWhere(value)
         IN  IF stripped \in OwnKeywords THEN Keywords(stripped)
             ELSE IF stripped \in InheritedKeywords THEN Fn(stripped)
             ELSE Str(stripped)

\* query.where is an object with one leaf, where[title]=<value>: qs.stringify
\* writes title=<value> and qs.parse hands the key and the value to the
\* decoder (the key title is left as it is by it).
parseQueryToWhereOptions(query) ==
    IF Truthy(query.where)
    THEN Obj({<<p[1], decoder(p[2])>> : p \in query.where.v})
    ELSE Obj({})

(***************************************************************************)
(* JavaScript objects with a variable set of keys are sets of <<key, value>>*)
(* pairs ({} is the empty set); o[k] is undefined for a missing key.       *)
(***************************************************************************)
Prop(o, k) ==
    IF \E p \in o.v : p[1] = k
    THEN (CHOOSE p \in o.v : p[1] = k)[2]
    ELSE Undef

(***************************************************************************)
(* State.                                                                  *)
(*   store, nextId  the table of the resource behind the ORM: store[i] is  *)
(*                  the row with primary key i (Null when there is none),  *)
(*                  nextId the next auto-increment key                     *)
(*   pc             "idle", or "responded" once a request has been served  *)
(*   req            the request being served                               *)
(*   served         the name of the route whose handler ran                *)
(*   ormCalls       the ORM operations the handler invoked, in order       *)
(*   thrown         the error an ORM operation raised, if any              *)
(*   findOptions, whereOptions  what the handler parsed from the query     *)
(*   response       what the handler (or Express, for an error handed to   *)
(*                  next) answered                                         *)
(***************************************************************************)
VARIABLES store, nextId, pc, req, served, ormCalls, thrown, findOptions,
          whereOptions, response, resources, routes

vars == <<store, nextId, pc, req, served, ormCalls, thrown, findOptions,
          whereOptions, response, resources, routes>>

Ids == 1..MaxId

\* Primary keys a request may name: one more than the table can hold, so that
\* a key without a row always exists.
RequestIds == 1..(MaxId + 1)

\* The text of a primary key, as it stands in the URL.
IdText(i) == DigitChar(i)

\* The primary key a URL parameter denotes.
PkOf(text) == CHOOSE i \in RequestIds : IdText(i) = text

NoError == [at |-> "none", name |-> "none"]

NoResponse ==
    [status |-> 0, via |-> "none", body |-> Undef, message |-> <<>>,
     meta |-> Undef]

NoRequest ==
    [method |-> "none", path |-> <<>>,
     query |-> [page |-> Undef, per_page |-> Undef, where |-> Undef,
                sort |-> Undef],
     body |-> Undef]

NoFindOptions == [limit |-> Undef, offset |-> Undef, orderBy |-> Undef]

(***************************************************************************)
(* express-response-formatter: response.formatter.<method>(...), and       *)
(* response.status(code).json(...).                                        *)
(***************************************************************************)
FormatterStatus(method) ==
    CASE method = "ok" -> 200
      [] method = "created" -> 201
      [] method = "noContent" -> 204
      [] method = "badRequest" -> 400
      [] method = "notFound" -> 404

Formatter(method, body, message, meta) ==
    [status |-> FormatterStatus(method), via |-> method, body |-> body,
     message |-> message, meta |-> meta]

Json(status, body) ==
    [status |-> status, via |-> "json", body |-> body, message |-> <<>>,
     meta |-> Undef]

\* A rejected handler: AsyncHandler hands the error to next(), no route
\* handler answers and Express's own error handler ends the request with 500.
Escaped ==
    [status |-> 500, via |-> "next(error)", body |-> Undef, message |-> <<>>,
     meta |-> Undef]

Call(op, awaited, ret) == [op |-> op, awaited |-> awaited, ret |-> ret]

\* What a handler did: its answer, its ORM calls, the error raised, the table
\* afterwards and the options it parsed.
Outcome(resp, calls, err, st, nid, fo, wo) ==
    [response |-> resp, ormCalls |-> calls, thrown |-> err, store |-> st,
     nextId |-> nid, findOptions |-> fo, whereOptions |-> wo]

\* fault names the ORM operation that fails in this request and the name of
\* the error it raises; Throws(fault, op) is whether op raises it.
Throws(fault, op) == fault.at = op

EmptyObject == Obj({})

(***************************************************************************)
(* The ORM (MikroORM's EntityManager), as far as the handlers use it.      *)
(***************************************************************************)
\* manager.create(modelName, data): an entity with the data's fields and no
\* primary key yet.
Create(data) ==
    Obj([id |-> Undef, title |-> data.v.title, user |-> data.v.user,
         tags |-> data.v.tags, editor |-> data.v.editor,
         reactions |-> data.v.reactions])

\* The row findOne(modelName, id) resolves to: null when there is none.
Lookup(id) == IF id \in DOMAIN store THEN store[id] ELSE Null

\* persistAndFlush(entities): each new entity is given the next key.
RECURSIVE Flush(_, _, _)
Flush(st, nid, entities) ==
    IF entities = <<>> THEN [store |-> st, nextId |-> nid, saved |-> <<>>]
    ELSE LET e == Obj([Head(entities).v EXCEPT !.id = Num(nid)])
             rest == Flush(IF nid \in DOMAIN st THEN [st EXCEPT ![nid] = e]
                           ELSE st, nid + 1, Tail(entities))
         IN  [rest EXCEPT !.saved = <<e>> \o rest.saved]

\* Whether a row satisfies the where options (an equality on title, or none).
Matches(row, where) ==
    where.v = {} \/ Prop(where, "title") = row.v.title

\* The keys of the rows that satisfy the where options, in key order.
RECURSIVE MatchingFrom(_, _)
MatchingFrom(i, where) ==
    IF i > Len(store) THEN <<>>
    ELSE (IF store[i] # Null /\ Matches(store[i], where)
          THEN <<store[i]>> ELSE <<>>) \o MatchingFrom(i + 1, where)

\* findAndCount(modelName, where, findOptions): the page of rows and the
\* number of all rows that satisfy where.
FindAndCount(where, options) ==
    LET all == MatchingFrom(1, where)
        page == IF options.limit.t = "number" /\ options.offset.t = "number"
                THEN SubSeq(all, options.offset.v + 1,
                            IF options.offset.v + options.limit.v < Len(all)
                            THEN options.offset.v + options.limit.v
                            ELSE Len(all))
                ELSE all
    IN  [entities |-> page, total |-> Len(all)]

\* The relation fields of the resource and the cardinality each records
\* (field.relatedProperty.reference).  The routes are generated alike for
\* every resource, so the modelled resource carries one relation of each
\* kind the example resources declare: belongsTo('User'),
\* belongsToMany('Tag'), hasOne('Editor'), hasMany('Reaction').
relatedProperty ==
    [user |-> "m:1", tags |-> "m:n", editor |-> "1:1", reactions |-> "1:m"]

RelationNames == DOMAIN relatedProperty

\* The cardinalities whose value is a list of related entities.
ToMany == {"m:n", "1:m"}

\* The entity after manager.populate(entity, relation, where) has loaded the
\* relation: a to-many property is a collection, which is an array in JSON
\* (empty when nothing is related), and a to-one property is the related
\* entity, or null when there is none.
Populate(entity, relation) ==
    LET held == entity.v[relation]
    IN  Obj([entity.v EXCEPT ![relation] =
                IF relatedProperty[relation] \in ToMany
                THEN (IF held.t = "array" THEN held ELSE Arr(<<>>))
                ELSE (IF held.t = "object" THEN held ELSE Null)])

(***************************************************************************)
(* The handlers extendRoutes generates.                                    *)
(***************************************************************************)
InsertHandler(rq, fault) ==
    LET entity == Create(rq.body)
        calls == <<Call("create", FALSE, entity),
                   Call("persistAndFlush", TRUE, Undef)>>
        flushed == Flush(store, nextId, <<entity>>)
    IN  IF Throws(fault, "persistAndFlush")
        THEN Outcome(Escaped, calls, fault, store, nextId, NoFindOptions,
                     EmptyObject)
        ELSE Outcome(Json(201, flushed.saved[1]), calls, NoError,
                     flushed.store, flushed.nextId, NoFindOptions, EmptyObject)

InsertMultipleHandler(rq, fault) ==
    LET objects == IF Truthy(rq.body.v.objects) THEN rq.body.v.objects.v
                   ELSE <<>>
        entities == [i \in 1..Len(objects) |-> Create(objects[i])]
        calls == [i \in 1..Len(objects) |-> Call("create", FALSE, entities[i])]
                 \o <<Call("persistAndFlush", TRUE, Undef)>>
        flushed == Flush(store, nextId, entities)
    IN  IF Throws(fault, "persistAndFlush")
        THEN Outcome(Escaped, calls, fault, store, nextId, NoFindOptions,
                     EmptyObject)
        ELSE Outcome(Formatter("created", Arr(flushed.saved), <<>>, Undef),
                     calls, NoError, flushed.store, flushed.nextId,
                     NoFindOptions, EmptyObject)

FetchMultipleHandler(rq, fault) ==
    LET options == parseQueryToFindOptions(rq.query)
        where == parseQueryToWhereOptions(rq.query)
        found == FindAndCount(where, options)
        calls == <<Call("findAndCount", TRUE, Arr(found.entities))>>
    IN  IF Throws(fault, "findAndCount")
        THEN Outcome(Escaped, <<Call("findAndCount", TRUE, Undef)>>, fault,
                     store, nextId, options, where)
        ELSE Outcome(Formatter("ok", Arr(found.entities), <<>>,
                               getPageMetaFromFindOptions(found.total, options)),
                     calls, NoError, store, nextId, options, where)

\* The handler with findOne not awaited, as in 'Update single'.
FetchSingleMutant(rq, fault) ==
    LET options == parseQueryToFindOptions(rq.query)
        entity == PromiseOf(Lookup(PkOf(rq.path[2])))
    IN  Outcome(
            IF ~Truthy(entity)
            THEN Formatter("notFound", Undef,
                           <<"could not find ", modelName, " with ID ",
                             rq.path[2]>>, Undef)
            ELSE Formatter("ok", entity, <<>>, Undef),
            <<Call("findOne", FALSE, entity)>>, NoError, store, nextId,
            options, EmptyObject)

FetchSingleHandler(rq, fault) ==
    LET options == parseQueryToFindOptions(rq.query)
        entity == Lookup(PkOf(rq.path[2]))
    IN  IF Throws(fault, "findOne")
        THEN Outcome(Escaped, <<Call("findOne", TRUE, Undef)>>, fault, store,
                     nextId, options, EmptyObject)
        ELSE Outcome(
                IF ~Truthy(entity)
                THEN Formatter("notFound", Undef,
                               <<"could not find ", modelName, " with ID ",
                                 rq.path[2]>>, Undef)
                ELSE Formatter("ok", entity, <<>>, Undef),
                <<Call("findOne", TRUE, entity)>>, NoError, store, nextId,
                options, EmptyObject)

\* manager.populate(entity, relation, where): the error it raises, if any.
\* MikroORM reads entity.constructor before anything else, which is a
\* TypeError for a null entity; it raises a ValidationError for a name that
\* is no property of the entity.
PopulateError(entity, relation, fault) ==
    IF entity = Null THEN [at |-> "populate", name |-> "TypeError"]
    ELSE IF Throws(fault, "populate") THEN fault
    ELSE IF relation \notin RelationNames
         THEN [at |-> "populate", name |-> "ValidationError"]
         ELSE NoError

\* The catch block of the 'Fetch relations' handler.
\* A catch block that answers badRequest whatever the error's name.
RelationCatchMutant(rq, error) ==
    Formatter("badRequest", Undef, <<"The request was not understood.">>,
              Undef)

RelationCatch(rq, error) ==
    IF error.name = "ValidationError"
    THEN Formatter("notFound", Undef,
                   <<"The ", modelName, " model does not have a '",
                     rq.path[3], "' property">>, Undef)
    ELSE Formatter("badRequest", Undef, <<"The request was not understood.">>,
                   Undef)

\* The 'Fetch relations' handler: the answer is the populated property,
\* entity?.[params['related-resource']].
\* A handler that answers with the entity itself, not the named property.
FetchRelationsMutant(rq, fault) ==
    LET where == parseQueryToWhereOptions(rq.query)
        entity == Lookup(PkOf(rq.path[2]))
        relation == rq.path[3]
        error == PopulateError(entity, relation, fault)
    IN  IF Throws(fault, "findOne")
        THEN Outcome(RelationCatch(rq, fault),
                     <<Call("findOne", TRUE, Undef)>>, fault, store, nextId,
                     NoFindOptions, where)
        ELSE IF error # NoError
        THEN Outcome(RelationCatch(rq, error),
                     <<Call("findOne", TRUE, entity),
                       Call("populate", TRUE, Undef)>>, error, store, nextId,
                     NoFindOptions, where)
        ELSE Outcome(Formatter("ok", Populate(entity, relation), <<>>, Undef),
                     <<Call("findOne", TRUE, entity),
                       Call("populate", TRUE, entity)>>, NoError, store,
                     nextId, NoFindOptions, where)

FetchRelationsHandler(rq, fault) ==
    LET where == parseQueryToWhereOptions(rq.query)
        entity == Lookup(PkOf(rq.path[2]))
        relation == rq.path[3]
        error == PopulateError(entity, relation, fault)
    IN  IF Throws(fault, "findOne")
        THEN Outcome(RelationCatch(rq, fault),
                     <<Call("findOne", TRUE, Undef)>>, fault, store, nextId,
                     NoFindOptions, where)
        ELSE IF error # NoError
        THEN Outcome(RelationCatch(rq, error),
                     <<Call("findOne", TRUE, entity),
                       Call("populate", TRUE, Undef)>>, error, store, nextId,
                     NoFindOptions, where)
        ELSE Outcome(Formatter("ok", Populate(entity, relation).v[relation],
                               <<>>, Undef),
                     <<Call("findOne", TRUE, entity),
                       Call("populate", TRUE, entity)>>, NoError, store,
                     nextId, NoFindOptions, where)

\* The 'Update single' handler does not await manager.findOne: entity is the
\* pending promise, which is never falsy, and it is the promise that
\* manager.assign and manager.persistAndFlush are given.  The table is left
\* as it is: no entity of the resource reaches the unit of work.
UpdateHandler(rq, fault) ==
    LET entity == PromiseOf(Lookup(PkOf(rq.path[2])))
        find == <<Call("findOne", FALSE, entity)>>
        assign == <<Call("assign", FALSE, Undef)>>
        persist == <<Call("persistAndFlush", TRUE, Undef)>>
    IN  IF ~Truthy(entity)
        THEN Outcome(Formatter("notFound", Undef,
                               <<"Could not find ", snakeCaseName,
                                 " with ID of ", rq.path[2]>>, Undef),
                     find, NoError, store, nextId, NoFindOptions, EmptyObject)
        ELSE IF Throws(fault, "assign")
        THEN Outcome(Escaped, find \o assign, fault, store, nextId,
                     NoFindOptions, EmptyObject)
        ELSE IF Throws(fault, "persistAndFlush")
        THEN Outcome(Escaped, find \o assign \o persist, fault, store, nextId,
                     NoFindOptions, EmptyObject)
        ELSE Outcome(Formatter("ok", entity, <<>>, Undef),
                     find \o assign \o persist, NoError, store, nextId,
                     NoFindOptions, EmptyObject)

\* The 'Delete single' handler does not await modelRepository.findOne either:
\* removeAndFlush is given the pending promise.
DeleteHandler(rq, fault) ==
    LET entity == PromiseOf(Lookup(PkOf(rq.path[2])))
        find == <<Call("getRepository", FALSE, Undef),
                  Call("findOne", FALSE, entity)>>
        remove == <<Call("removeAndFlush", TRUE, Undef)>>
    IN  IF ~Truthy(entity)
        THEN Outcome(Formatter("notFound", Undef,
                               <<"Could not find resourceName with ID of ",
                                 rq.path[2]>>, Undef),
                     find, NoError, store, nextId, NoFindOptions, EmptyObject)
        ELSE IF Throws(fault, "removeAndFlush")
        THEN Outcome(Escaped, find \o remove, fault, store, nextId,
                     NoFindOptions, EmptyObject)
        ELSE Outcome(Formatter("noContent", EmptyObject, <<>>, Undef),
                     find \o remove, NoError, store, nextId, NoFindOptions,
                     EmptyObject)

(***************************************************************************)
(* The routes extendRoutes returns, in the order it pushes them, and their *)
(* registration on the Express application.                                *)
(***************************************************************************)
Route(name, type, path) == [name |-> name, type |-> type, path |-> path]

\* The routes.push(...) calls of one pass of resources.forEach, for the
\* resource whose slugPlural is plural.
\* A pass that pushes no 'Insert multiple' route.
ResourceRoutesMutant(plural) ==
    <<Route("Insert", "POST", <<plural>>),
      Route("Fetch multiple", "GET", <<plural>>),
      Route("Fetch single", "GET", <<plural, ":id">>),
      Route("Fetch relations", "GET", <<plural, ":id", ":related-resource">>),
      Route("Update single", "PUT", <<plural, ":id">>),
      Route("Delete single", "DELETE", <<plural, ":id">>)>>

ResourceRoutes(plural) ==
    <<Route("Insert", "POST", <<plural>>),
      Route("Insert multiple", "POST", <<plural>>),
      Route("Fetch multiple", "GET", <<plural>>),
      Route("Fetch single", "GET", <<plural, ":id">>),
      Route("Fetch relations", "GET", <<plural, ":id", ":related-resource">>),
      Route("Update single", "PUT", <<plural, ":id">>),
      Route("Delete single", "DELETE", <<plural, ":id">>)>>

\* extendRoutes(resources, getApiPath): the routes of every resource, in the
\* order of the resources.
RECURSIVE extendRoutes(_)
extendRoutes(list) ==
    IF list = <<>> THEN <<>>
    ELSE ResourceRoutes(Head(list)) \o extendRoutes(Tail(list))

\* Whether Express matches a request to a route: the verb, and the path
\* segment by segment, a :parameter matching any segment.
RouteMatches(route, rq) ==
    /\ route.type = rq.method
    /\ Len(route.path) = Len(rq.path)
    /\ \A i \in 1..Len(route.path) :
          route.path[i] \in {":id", ":related-resource"}
          \/ route.path[i] = rq.path[i]

\* app[type](path, ..., AsyncHandler(handler)) for each route, in order: a
\* request goes to the first route registered that matches it.  No handler
\* calls next(), so no later route sees the request.
Dispatch(rq) ==
    CHOOSE i \in 1..Len(routes) :
        /\ RouteMatches(routes[i], rq)
        /\ \A j \in 1..Len(routes) :
              RouteMatches(routes[j], rq) => i <= j

\* route.config.handler(request, response)
Handle(name, rq, fault) ==
    CASE name = "Insert" -> InsertHandler(rq, fault)
      [] name = "Insert multiple" -> InsertMultipleHandler(rq, fault)
      [] name = "Fetch multiple" -> FetchMultipleHandler(rq, fault)
      [] name = "Fetch single" -> FetchSingleHandler(rq, fault)
      [] name = "Fetch relations" -> FetchRelationsHandler(rq, fault)
      [] name = "Update single" -> UpdateHandler(rq, fault)
      [] name = "Delete single" -> DeleteHandler(rq, fault)

(***************************************************************************)
(* Requests.                                                               *)
(***************************************************************************)
NoQuery ==
    [page |-> Undef, per_page |-> Undef, where |-> Undef, sort |-> Undef]

\* ?page=: absent, empty, the sentinel -1, below 1, 1..MaxPage, not a number.
PageInputs ==
    {Undef, Str(<<>>), MinusOne, Str(<<"-", "2">>), Str(<<"a">>)}
    \cup {Str(IntToStr(p)) : p \in 0..MaxPage}

\* ?per_page=: absent, 0, not a number, digits followed by text, 1..MaxPerPage
\* and 10.
PerPageInputs ==
    {Undef, Str(<<"0">>), Str(<<"x">>), Str(<<"2", "x">>), Str(<<"1", "0">>)}
    \cup {Str(IntToStr(n)) : n \in 1..MaxPerPage}

\* ?sort=: the fields and directions a sort may name, as text.
SortFields == {<<"t", "i", "t", "l", "e">>, <<"i", "d">>}

SortDirections == {<<"a", "s", "c">>, <<"d", "e", "s", "c">>}

\* Lists of 1..MaxSort <<field, direction>> pairs.
SortPairLists ==
    UNION {[1..n -> SortFields \X SortDirections] : n \in 1..MaxSort}

\* The text of a list of pairs: field:direction,field:direction,...
RECURSIVE SortText(_)
SortText(pairs) ==
    IF pairs = <<>> THEN <<>>
    ELSE Head(pairs)[1] \o <<":">> \o Head(pairs)[2]
         \o (IF Len(pairs) > 1 THEN <<",">> \o SortText(Tail(pairs))
             ELSE <<>>)

\* ?sort=: absent, empty, a field without a direction, and the texts of the
\* lists of pairs.
SortInputs ==
    {Undef, Str(<<>>), Str(<<"i", "d">>)}
    \cup {Str(SortText(pairs)) : pairs \in SortPairLists}

\* The leaf values of ?where[title]=.
WhereStrings ==
    {<<"5">>, <<"1", "2">>, <<"0", "0", "7">>, <<".", "5">>, <<"1", ".", "5", "0">>, <<"2", ".", "0">>,
     <<"5", ".">>, <<"-", "5">>, <<"1", "e", "3">>, <<>>,
     <<"t", "r", "u", "e">>, <<"f", "a", "l", "s", "e">>, <<"n", "u", "l", "l">>, <<"u", "n", "d", "e", "f", "i", "n", "e", "d">>, <<"T", "r", "u", "e">>,
     <<"a">>, <<"b">>, <<"w", "h", "e", "r", "e", "a">>, <<"w", "h", "e", "r", "e">>, <<"s", "o", "m", "e", "w", "h", "e", "r", "e">>, <<"w", "h", "e", "r", "e", "t", "r", "u", "e">>,
     <<"n", "o", "w", "h", "e", "r", "e", "w", "h", "e", "r", "e">>, <<"t", "o", "S", "t", "r", "i", "n", "g">>, <<"c", "o", "n", "s", "t", "r", "u", "c", "t", "o", "r">>}

WhereInputs == {Undef} \cup {Obj({<<"title", s>>}) : s \in WhereStrings}

\* The where inputs of the list endpoint: none, a number, two titles.
ListWhereInputs ==
    {Undef} \cup {Obj({<<"title", s>>}) : s \in {<<"5">>, <<"a">>, <<"b">>}}

\* The fields of a Post a request body gives.
ItemData ==
    {[title |-> Str(<<"a">>), user |-> Null, tags |-> Arr(<<>>),
      editor |-> Null, reactions |-> Arr(<<>>), objects |-> Undef],
     [title |-> Str(<<"b">>), user |-> Obj([id |-> Num(1)]),
      tags |-> Arr(<<Obj([id |-> Num(1)])>>),
      editor |-> Obj([id |-> Num(1)]),
      reactions |-> Arr(<<Obj([id |-> Num(1)])>>), objects |-> Undef]}

SingleBodies == {Obj(d) : d \in ItemData}

ObjectLists ==
    UNION {[1..n -> SingleBodies] : n \in 0..MaxObjects}

\* Bodies of a bulk insert: { objects: [...] }, and {} (no objects).
BulkBodies ==
    {Obj([title |-> Undef, user |-> Undef, tags |-> Undef,
          editor |-> Undef, reactions |-> Undef,
          objects |-> Arr(objects)]) : objects \in ObjectLists}
    \cup {Obj([title |-> Undef, user |-> Undef, tags |-> Undef,
               editor |-> Undef, reactions |-> Undef, objects |-> Undef])}

ErrorNames == {"ValidationError", "Error"}

\* No operation fails, or one of ops fails with an error of one of the names.
Faults(ops, names) == {NoError} \cup [at : ops, name : names]

(***************************************************************************)
(* Serving a request: Express dispatches it to a route, the route's        *)
(* handler runs to its answer.                                             *)
(***************************************************************************)
Served(rq, fault) ==
    LET route == routes[Dispatch(rq)]
    IN  [route |-> route.name, out |-> Handle(route.name, rq, fault)]

\* The table has room for the rows the request inserts.
HasRoom(s) == s.out.nextId <= Len(store) + 1

Answer(rq, s) ==
    /\ pc' = "responded"
    /\ req' = rq
    /\ served' = s.route
    /\ ormCalls' = s.out.ormCalls
    /\ thrown' = s.out.thrown
    /\ findOptions' = s.out.findOptions
    /\ whereOptions' = s.out.whereOptions
    /\ response' = s.out.response
    /\ store' = s.out.store
    /\ nextId' = s.out.nextId
    /\ UNCHANGED <<resources, routes>>

Request(method, path, query, body) ==
    [method |-> method, path |-> path, query |-> query, body |-> body]

\* POST /posts
PostPlural ==
    /\ pc = "idle"
    /\ \E body \in SingleBodies \cup BulkBodies,
       fault \in Faults({"persistAndFlush"}, {"Error"}) :
        \E rq \in {Request("POST", <<slugPlural>>, NoQuery, body)} :
            \E s \in {Served(rq, fault)} :
                HasRoom(s) /\ Answer(rq, s)

\* GET /posts
GetPlural ==
    /\ pc = "idle"
    /\ \E page \in PageInputs, per_page \in PerPageInputs,
       where \in ListWhereInputs,
       fault \in Faults({"findAndCount"}, {"Error"}) :
        \E sort \in IF per_page = Undef /\ where = Undef /\ fault = NoError
                    THEN SortInputs ELSE {Undef} :
            \E rq \in {Request("GET", <<slugPlural>>,
                               [page |-> page, per_page |-> per_page,
                                where |-> where, sort |-> sort], Undef)} :
                \E s \in {Served(rq, fault)} :
                    HasRoom(s) /\ Answer(rq, s)

\* GET /posts/:id
GetSingle ==
    /\ pc = "idle"
    /\ \E id \in RequestIds, page \in PageInputs, per_page \in PerPageInputs,
       fault \in Faults({"findOne"}, {"Error"}) :
        \E rq \in {Request("GET", <<slugPlural, IdText(id)>>,
                           [page |-> page, per_page |-> per_page,
                            where |-> Undef, sort |-> Undef], Undef)} :
            \E s \in {Served(rq, fault)} :
                HasRoom(s) /\ Answer(rq, s)

\* GET /posts/:id/:related-resource
GetRelation ==
    /\ pc = "idle"
    /\ \E id \in RequestIds, relation \in RelationNames \cup {"bogus"},
       where \in WhereInputs :
        \E fault \in IF where \in ListWhereInputs
                     THEN Faults({"findOne", "populate"}, ErrorNames)
                     ELSE {NoError} :
            \E rq \in {Request("GET", <<slugPlural, IdText(id), relation>>,
                               [page |-> Undef, per_page |-> Undef,
                                where |-> where, sort |-> Undef], Undef)} :
                \E s \in {Served(rq, fault)} :
                    HasRoom(s) /\ Answer(rq, s)

\* PUT /posts/:id
PutSingle ==
    /\ pc = "idle"
    /\ \E id \in RequestIds, body \in SingleBodies,
       fault \in Faults({"assign", "persistAndFlush"}, {"Error"}) :
        \E rq \in {Request("PUT", <<slugPlural, IdText(id)>>, NoQuery, body)} :
            \E s \in {Served(rq, fault)} :
                HasRoom(s) /\ Answer(rq, s)

\* DELETE /posts/:id
DeleteSingle ==
    /\ pc = "idle"
    /\ \E id \in RequestIds, fault \in Faults({"removeAndFlush"}, {"Error"}) :
        \E rq \in {Request("DELETE", <<slugPlural, IdText(id)>>, NoQuery,
                           Undef)} :
            \E s \in {Served(rq, fault)} :
                HasRoom(s) /\ Answer(rq, s)

\* The answer is sent: the request is over.
Respond ==
    /\ pc = "responded"
    /\ pc' = "idle"
    /\ req' = NoRequest
    /\ served' = "none"
    /\ ormCalls' = <<>>
    /\ thrown' = NoError
    /\ findOptions' = NoFindOptions
    /\ whereOptions' = EmptyObject
    /\ response' = NoResponse
    /\ UNCHANGED <<store, nextId, resources, routes>>

Init ==
    /\ store = [i \in Ids |-> Null]
    /\ nextId = 1
    /\ pc = "idle"
    /\ req = NoRequest
    /\ served = "none"
    /\ ormCalls = <<>>
    /\ thrown = NoError
    /\ findOptions = NoFindOptions
    /\ whereOptions = EmptyObject
    /\ response = NoResponse
    /\ resources = <<slugPlural>>
    /\ routes = extendRoutes(resources)

Next ==
    \/ PostPlural
    \/ GetPlural
    \/ GetSingle
    \/ GetRelation
    \/ PutSingle
    \/ DeleteSingle
    \/ Respond

Spec == Init /\ [][Next]_vars

(***************************************************************************)
(* The list endpoint over tables of every size up to MaxRows: the table    *)
(* holds rows 1..n with the same fields, and GET /posts is the only        *)
(* request.  This is the specification the page-meta properties are        *)
(* checked under, where the total ranges over 0..MaxRows.                  *)
(***************************************************************************)
FilledRow(i) ==
    Obj([id |-> Num(i), title |-> Str(<<"a">>), user |-> Null,
         tags |-> Arr(<<>>), editor |-> Null, reactions |-> Arr(<<>>)])

ListInit ==
    /\ \E n \in 0..MaxRows :
          /\ store = [i \in 1..MaxRows |-> IF i <= n THEN FilledRow(i) ELSE Null]
          /\ nextId = n + 1
    /\ pc = "idle"
    /\ req = NoRequest
    /\ served = "none"
    /\ ormCalls = <<>>
    /\ thrown = NoError
    /\ findOptions = NoFindOptions
    /\ whereOptions = EmptyObject
    /\ response = NoResponse
    /\ resources = <<slugPlural>>
    /\ routes = extendRoutes(resources)

ListNext ==
    \/ GetPlural
    \/ Respond

ListSpec == ListInit /\ [][ListNext]_vars

(***************************************************************************)
(* Route generation over every list of resources up to MaxResources: the   *)
(* plugin is given the resources, registers the routes extendRoutes        *)
(* returns, and requests are then matched to the routes.  Only the routing *)
(* of a request is followed here, not its handler.                         *)
(***************************************************************************)
\* The slugPlural of the resources an application may declare.
ResourceSlugs == {"posts", "comments", "users", "tags"}

\* Lists of distinct resources.
ResourceLists ==
    {l \in UNION {[1..n -> ResourceSlugs] : n \in 0..MaxResources} :
        \A i, j \in DOMAIN l : l[i] = l[j] => i = j}

RouteInit ==
    /\ resources \in ResourceLists
    /\ routes = <<>>
    /\ pc = "boot"
    /\ store = [i \in Ids |-> Null]
    /\ nextId = 1
    /\ req = NoRequest
    /\ served = "none"
    /\ ormCalls = <<>>
    /\ thrown = NoError
    /\ findOptions = NoFindOptions
    /\ whereOptions = EmptyObject
    /\ response = NoResponse

\* afterDatabaseSetup and setup: the routes of the resources are generated
\* and registered on the application.
Register ==
    /\ pc = "boot"
    /\ routes' = extendRoutes(resources)
    /\ pc' = "idle"
    /\ UNCHANGED <<store, nextId, req, served, ormCalls, thrown, findOptions,
                   whereOptions, response, resources>>

\* The paths a request may have: a collection, an item, a relation of an item.
RequestPaths ==
    UNION {{<<p>>, <<p, IdText(1)>>, <<p, IdText(1), "user">>} :
              p \in ResourceSlugs}

\* Express matches a request to the first registered route that fits it.
Match ==
    /\ pc = "idle"
    /\ \E method \in {"GET", "POST", "PUT", "DELETE"}, path \in RequestPaths :
        \E rq \in {Request(method, path, NoQuery, Undef)} :
            /\ \E i \in 1..Len(routes) : RouteMatches(routes[i], rq)
            /\ req' = rq
            /\ served' = routes[Dispatch(rq)].name
            /\ pc' = "responded"
            /\ UNCHANGED <<store, nextId, ormCalls, thrown, findOptions,
                           whereOptions, response, resources, routes>>

RouteNext ==
    \/ Register
    \/ Match
    \/ Respond

RouteSpec == RouteInit /\ [][RouteNext]_vars

(***************************************************************************)
(* Properties.                                                             *)
(***************************************************************************)
Responded(route) == pc = "responded" /\ served = route

\* The primary key the request names and the row the lookup resolves to.  No
\* handler that looks a row up changes the table, so this is the row the
\* handler's findOne resolved to.
RequestedId == PkOf(req.path[2])

RequestedRow == Lookup(RequestedId)

Invoked(op) == \E i \in 1..Len(ormCalls) : ormCalls[i].op = op

Contains(message, text) == \E i \in 1..Len(message) : message[i] = text

\* C1: in the 'Delete single' handler, an id the lookup finds no entity for
\* is answered 404 and removeAndFlush is not invoked; removeAndFlush and the
\* 204 answer happen only when the lookup found an entity.
C1_DeleteMissingIs404 ==
    Responded("Delete single") =>
        /\ RequestedRow = Null =>
              response.status = 404 /\ ~Invoked("removeAndFlush")
        /\ (Invoked("removeAndFlush") \/ response.status = 204) =>
              RequestedRow # Null

\* C2: in the 'Update single' handler, an id the lookup finds no entity for
\* is answered 404 and neither assign nor persistAndFlush is invoked; only
\* when the entity exists is it merged, persisted and returned with 200.
C2_UpdateMissingIs404 ==
    Responded("Update single") =>
        /\ RequestedRow = Null =>
              /\ response.status = 404
              /\ ~Invoked("assign")
              /\ ~Invoked("persistAndFlush")
        /\ (Invoked("assign") \/ Invoked("persistAndFlush")
            \/ response.status = 200) => RequestedRow # Null

\* C3: in the 'Fetch single' handler, whenever findOne returns no entity the
\* answer is 404 with a message that contains the model name and the
\* requested id; a 200 answer carries the entity and is given only when
\* findOne returned one.
C3_FetchSingleMissingIs404 ==
    (Responded("Fetch single") /\ thrown = NoError) =>
        /\ RequestedRow = Null =>
              /\ response.status = 404
              /\ Contains(response.message, modelName)
              /\ Contains(response.message, req.path[2])
        /\ response.status = 200 =>
              RequestedRow # Null /\ response.body = RequestedRow
        /\ response.status \in {200, 404}

C3_Witness ==
    /\ Responded("Fetch single")
    /\ thrown = NoError
    /\ RequestedRow = Null
    /\ response.status = 404

\* The handlers that parse find options from the query.
ParsedFindOptions ==
    pc = "responded" /\ served \in {"Fetch multiple", "Fetch single"}

PageIs(p) == req.query.page = Str(IntToStr(p))

PerPageIs(n) == req.query.per_page = Str(IntToStr(n))

\* The valid page sizes of the requests: 1..MaxPerPage and 10.
PageSizes == (1..MaxPerPage) \cup {10}

\* C4: for a page >= 1 and per_page = n the find options have limit = n and
\* offset = (page - 1) * n; for a page below 1 (not the sentinel -1) the offset
\* is 0.
C4_LimitAndOffset ==
    ParsedFindOptions =>
        /\ \A p \in 1..MaxPage, n \in PageSizes :
              (PageIs(p) /\ PerPageIs(n)) =>
                  /\ findOptions.limit = Num(n)
                  /\ findOptions.offset = Num((p - 1) * n)
        /\ \A p \in {0, -2} : PageIs(p) => findOptions.offset = Num(0)

C4_Witness ==
    /\ ParsedFindOptions
    /\ PageIs(3)
    /\ PerPageIs(2)
    /\ findOptions.offset = Num(4)

HasLimitAndOffset == findOptions.limit # Undef /\ findOptions.offset # Undef

HasNeitherLimitNorOffset == findOptions.limit = Undef /\ findOptions.offset = Undef

\* C5 as stated: limit and offset are set if and only if page is present and
\* is not -1, and limit is then per_page if one is given and the default page
\* size otherwise.
C5_SetIffPagePresent ==
    ParsedFindOptions =>
        /\ HasLimitAndOffset <=>
              (req.query.page # Undef /\ req.query.page # MinusOne)
        /\ HasLimitAndOffset \/ HasNeitherLimitNorOffset
        /\ HasLimitAndOffset =>
              /\ req.query.per_page = Undef =>
                    findOptions.limit = Num(perPageOptions[1])
              /\ \A n \in 0..MaxPerPage :
                    PerPageIs(n) => findOptions.limit = Num(n)

\* C5, amended: limit and offset are set if and only if page is a non-empty
\* string other than -1; limit is then the integer per_page begins with when
\* that is not 0, and the default page size (the first per-page option) when
\* per_page is absent, does not begin with a number, or is 0.
C5_SetIffPageNonEmpty ==
    ParsedFindOptions =>
        /\ HasLimitAndOffset <=>
              req.query.page \notin {Undef, Str(<<>>), MinusOne}
        /\ HasLimitAndOffset \/ HasNeitherLimitNorOffset
        /\ HasLimitAndOffset =>
              /\ req.query.per_page \in {Undef, Str(<<"0">>), Str(<<"x">>)} =>
                    findOptions.limit = Num(perPageOptions[1])
              /\ \A n \in PageSizes :
                    PerPageIs(n) => findOptions.limit = Num(n)
              /\ req.query.per_page = Str(<<"2", "x">>) =>
                    findOptions.limit = Num(2)

C5_Witness ==
    /\ ParsedFindOptions
    /\ req.query.page = Str(<<"0">>)
    /\ req.query.per_page = Str(<<"0">>)
    /\ findOptions.limit = Num(perPageOptions[1])

\* The number of rows that satisfy the where options of the request: the
\* total findAndCount returns.
MatchingRows ==
    Cardinality({i \in DOMAIN store :
                    store[i] # Null /\ Matches(store[i], whereOptions)})

ListAnswered == Responded("Fetch multiple") /\ response.status = 200

\* C6: for a total >= 0 and a limit > 0 the page meta has page_count =
\* ceil(total / limit) (the least k with k * limit >= total), total equal to
\* the total given and per_page equal to the limit.
C6_PageCount ==
    (ListAnswered /\ findOptions.limit.t = "number" /\ findOptions.limit.v > 0)
    =>  /\ response.meta.total = Num(MatchingRows)
        /\ response.meta.per_page = findOptions.limit
        /\ response.meta.page_count.t = "number"
        /\ response.meta.page_count.v * findOptions.limit.v >= MatchingRows
        /\ (response.meta.page_count.v - 1) * findOptions.limit.v < MatchingRows

C6_Witness ==
    /\ ListAnswered
    /\ findOptions.limit = Num(3)
    /\ MatchingRows = 7
    /\ response.meta.total = Num(7)
    /\ response.meta.page_count = Num(3)

\* C7: the page of the meta of a 'Fetch multiple' answer is the page the query
\* asked for, for every page >= 1 and per_page >= 1 (page=2, per_page=10 and
\* 25 rows give total 25, page 2, per_page 10, page_count 3); it is null
\* when no limit is set.
C7_PageRoundTrip ==
    /\ ListAnswered =>
          /\ \A p \in 1..MaxPage, n \in PageSizes :
                (PageIs(p) /\ PerPageIs(n)) => response.meta.page = Num(p)
          /\ findOptions.limit = Undef => response.meta.page = Null
    /\ getPageMetaFromFindOptions(
           25, parseQueryToFindOptions([page |-> Str(<<"2">>),
                                        per_page |-> Str(<<"1", "0">>),
                                        where |-> Undef, sort |-> Undef]))
       = [total |-> Num(25), page |-> Num(2), per_page |-> Num(10),
          page_count |-> Num(3)]

C7_Witness ==
    /\ ListAnswered
    /\ PageIs(2)
    /\ PerPageIs(10)
    /\ response.meta = [total |-> Num(25), page |-> Num(2),
                        per_page |-> Num(10), page_count |-> Num(3)]

\* The handlers that parse where options from the query, for a query that
\* has a where[title] leaf.
ParsedWhere ==
    /\ pc = "responded"
    /\ served \in {"Fetch multiple", "Fetch relations"}
    /\ req.query.where # Undef

WhereLeaf == Prop(req.query.where, "title")

DecodedLeaf == Prop(whereOptions, "title")

\* C8: every leaf of query.where is decoded so: a numeric string such as "5"
\* becomes the number, "true" and "false" the booleans, "null" null, and
\* anything else is the unchanged string.  ("undefined", which the decoder
\* turns into undefined, is left out of the last case here.)
C8_WhereDecoding ==
    ParsedWhere =>
        /\ WhereLeaf = <<"5">> => DecodedLeaf = Num(5)
        /\ WhereLeaf = <<"1", "2">> => DecodedLeaf = Num(12)
        /\ WhereLeaf = <<"t", "r", "u", "e">> => DecodedLeaf = Bool(TRUE)
        /\ WhereLeaf = <<"f", "a", "l", "s", "e">> => DecodedLeaf = Bool(FALSE)
        /\ WhereLeaf = <<"n", "u", "l", "l">> => DecodedLeaf = Null
        /\ (/\ ~IsNumericString(WhereLeaf)
            /\ WhereLeaf \notin {<<"t", "r", "u", "e">>, <<"f", "a", "l", "s", "e">>,
                                 <<"n", "u", "l", "l">>, <<"u", "n", "d", "e", "f", "i", "n", "e", "d">>})
           => DecodedLeaf = Str(WhereLeaf)

BulkRequest ==
    /\ pc = "responded"
    /\ req.method = "POST"
    /\ req.path = <<slugPlural>>
    /\ Truthy(req.body.v.objects)

\* C9: a POST to /posts whose body carries an objects array is served by the
\* insert-many handler: one entity is created per element of body.objects,
\* all are persisted in one persistAndFlush and answered with 201.
C9_BulkInsertServed ==
    BulkRequest =>
        /\ served = "Insert multiple"
        /\ thrown = NoError =>
              /\ response.status = 201
              /\ response.body.t = "array"
              /\ Len(response.body.v) = Len(req.body.v.objects.v)

RelationFetched ==
    Responded("Fetch relations") /\ response.status = 200

OrmErrorRaised == pc = "responded" /\ thrown # NoError

\* C12: in every generated handler an ORM error is caught at the handler
\* boundary and answered with a structured response that carries an HTTP
\* status and a message; no ORM error leaves a handler.
C12_OrmErrorsAnswered ==
    OrmErrorRaised =>
        /\ response.via \in {"badRequest", "notFound"}
        /\ response.status \in {400, 404}
        /\ response.message # <<>>

\* The routes are registered.
Registered == pc # "boot"

\* C13 as stated: six routes are generated for each resource, 6 * k for k
\* resources.
C13_SixRoutesPerResource ==
    Registered => Len(routes) = 6 * Len(resources)

\* C13, amended: seven routes are generated for each resource, 7 * k for k
\* resources, and the routes of the i-th resource are, in order, POST
\* /{plural} twice (insert one, insert many), GET /{plural}, GET
\* /{plural}/:id, GET /{plural}/:id/:related-resource, PUT /{plural}/:id and
\* DELETE /{plural}/:id.
C13_SevenRoutesPerResource ==
    LET templates(p) ==
            <<<<"POST", <<p>>>>, <<"POST", <<p>>>>, <<"GET", <<p>>>>,
              <<"GET", <<p, ":id">>>>,
              <<"GET", <<p, ":id", ":related-resource">>>>,
              <<"PUT", <<p, ":id">>>>, <<"DELETE", <<p, ":id">>>>>>
    IN  Registered =>
            /\ Len(routes) = 7 * Len(resources)
            /\ \A i \in 1..Len(resources) : \A j \in 1..7 :
                  /\ routes[7 * (i - 1) + j].type
                        = templates(resources[i])[j][1]
                  /\ routes[7 * (i - 1) + j].path
                        = templates(resources[i])[j][2]

\* The routes of three resources are registered.
C13_Witness ==
    /\ Registered
    /\ Len(resources) = 3
    /\ Len(routes) = 21

\* The entries of the orderBy the request was parsed to.
OrderByEntries ==
    {findOptions.orderBy.v[i] : i \in DOMAIN findOptions.orderBy.v}

\* The sort of the answered request is the text of the list of pairs.
SortIs(pairs) == req.query.sort = Str(SortText(pairs))

\* C14: for a sort of comma-separated field:direction pairs, orderBy is one
\* map whose keys are exactly the fields named, each with the direction of
\* the last pair that names it; without a sort, orderBy is not set.
C14_OrderBy ==
    Responded("Fetch multiple") =>
        /\ \A pairs \in SortPairLists :
              SortIs(pairs) =>
                 /\ findOptions.orderBy.t = "object"
                 /\ {entry[1] : entry \in OrderByEntries}
                       = {pairs[i][1] : i \in DOMAIN pairs}
                 /\ \A i, j \in DOMAIN findOptions.orderBy.v :
                       findOptions.orderBy.v[i][1]
                          = findOptions.orderBy.v[j][1] => i = j
                 /\ \A i \in DOMAIN pairs :
                       (\A j \in DOMAIN pairs : j > i => pairs[j][1] # pairs[i][1])
                       => <<pairs[i][1], Str(pairs[i][2])>>
                             \in OrderByEntries
        /\ req.query.sort = Undef => findOptions.orderBy = Undef

\* A sort that names title twice was parsed: the later direction is kept.
C14_Witness ==
    /\ Responded("Fetch multiple")
    /\ SortIs(<<<<<<"t", "i", "t", "l", "e">>, <<"a", "s", "c">>>>,
                <<<<"t", "i", "t", "l", "e">>, <<"d", "e", "s", "c">>>>>>)
    /\ findOptions.orderBy
          = Obj(<<<<<<"t", "i", "t", "l", "e">>, Str(<<"d", "e", "s", "c">>)>>>>)

\* The ORM calls that read rows of the resource, and those that write.
\* manager.populate loads the relation of the entity findOne has read and is
\* taken with that read.
ReadOps == {"findOne", "findAndCount"}

WriteOps == {"persistAndFlush", "removeAndFlush"}

\* The positions of the answered request's ORM calls that are among ops.
CallsOf(ops) == {i \in DOMAIN ormCalls : ormCalls[i].op \in ops}

\* C15: a handler issues at most one read and at most one write
\* (persistAndFlush or removeAndFlush); a write is issued only after the
\* handler's read has completed, so that it is the read's result that was
\* inspected; the fetch-many, fetch-one and fetch-relation handlers issue no
\* write.
C15_ReadThenWrite ==
    pc = "responded" =>
        /\ Cardinality(CallsOf(ReadOps)) <= 1
        /\ Cardinality(CallsOf(WriteOps)) <= 1
        /\ \A w \in CallsOf(WriteOps) : \A r \in CallsOf(ReadOps) :
              r < w /\ ormCalls[r].awaited
        /\ served \in {"Fetch multiple", "Fetch single", "Fetch relations"}
              => CallsOf(WriteOps) = {}

=============================================================================
